---- MODULE Spec2Model ----
(***************************************************************************)
(* A model of the TimeSeriesDL configuration manager (utils/config.py),    *)
(* the convolutional auto-encoder (model/ae_model.py) and the variational  *)
(* auto-encoder (model/auto_encoder/conv_vae.py).                          *)
(*                                                                         *)
(* The six components share no state, so each has its own specification: *)
(*   SpecRegistry  Config.register_model / Config.get_model                *)
(*   SpecConfig    Config.get_args / Config._set_precision / store_args    *)
(*   SpecFreeze    AE.freeze / ConvVAE.freeze                              *)
(*   SpecAE        AE.__init__ / encode / decode / forward (tensor shapes) *)
(*   SpecVAEEncode ConvVAE._encode (the axis swaps)                        *)
(*   SpecVAESample ConvVAE.reparameterization                              *)
(***************************************************************************)
EXTENDS Integers, Sequences, FiniteSets, TLC

VARIABLES
    model_register,   \* Config.__model_register: name -> model class
    registered_names, \* history: every name ever passed to register_model
    last_registered,  \* history: name -> class of the latest register_model call
    ret               \* outcome of the latest registry call

regVars == <<model_register, registered_names, last_registered, ret>>

VARIABLES
    file,     \* the text of the configuration file at `path`
    args,     \* the dictionary the latest successful get_args returned
    args_set, \* whether get_args has returned a dictionary yet
    orig,     \* history: the document first written to the file
    saves,    \* history: number of store_args calls that returned
    cfg_ret   \* outcome of the latest configuration call

cfgVars == <<file, args, args_set, orig, saves, cfg_ret>>

VARIABLES
    instance,      \* the class of the model instance: "AE" or "ConvVAE"
    requires_grad, \* parameter -> whether it accumulates gradients
    frz_ret        \* the latest freeze call and its argument

frzVars == <<instance, requires_grad, frz_ret>>

VARIABLES
    constructed, \* AE.__init__ has run
    ae,          \* the construction parameters the AE keeps
    ef_length,   \* AE.__init__'s local ef_length
    ls_length,   \* AE.__init__'s local ls_length
    warned,      \* AE.__init__ printed its warning
    x_shape,     \* shape of the latest input batch
    z_shape,     \* shape of the latest latent tensor
    y_shape,     \* shape of the latest reconstruction
    ae_ret       \* outcome of the latest AE call

aeVars == <<constructed, ae, ef_length, ls_length, warned, x_shape, z_shape, y_shape, ae_ret>>

VARIABLES
    vx,      \* the tensor _encode was called with
    enc_in,  \* the tensor _encode handed to its first convolution
    enc_ret  \* the latest _encode call

encVars == <<vx, enc_in, enc_ret>>

VARIABLES
    mean,    \* reparameterization's argument mean
    var,     \* reparameterization's argument var
    eps,     \* the noise the latest call drew
    zs,      \* the sample the latest call returned
    smp_ret  \* the latest reparameterization call

smpVars == <<mean, var, eps, zs, smp_ret>>

vars == <<regVars, cfgVars, frzVars, aeVars, encVars, smpVars>>

\* What a component's operations leave alone: the other components.
notReg == <<cfgVars, frzVars, aeVars, encVars, smpVars>>
notCfg == <<regVars, frzVars, aeVars, encVars, smpVars>>
notFrz == <<regVars, cfgVars, aeVars, encVars, smpVars>>
notAe == <<regVars, cfgVars, frzVars, encVars, smpVars>>
notEnc == <<regVars, cfgVars, frzVars, aeVars, smpVars>>
notSmp == <<regVars, cfgVars, frzVars, aeVars, encVars>>

(***************************************************************************)
(* Python values shared by the components                                  *)
(***************************************************************************)
None == "None"

\* An empty dict: the function with the empty domain.
EmptyDict == [k \in {} |-> None]

\* dict.get(key, None)
DictGet(d, k) == IF k \in DOMAIN d THEN d[k] ELSE None

\* d[key] = value
DictSet(d, k, v) == [x \in DOMAIN d \cup {k} |-> IF x = k THEN v ELSE d[x]]

(***************************************************************************)
(* Model registry                                                          *)
(***************************************************************************)
MaxNames == 3
MaxClasses == 2

NameUniverse == <<"SimpleModel", "ConvVAE", "ConvLSTM", "Custom", "Other">>
ClassUniverse == <<"AE", "ConvVAE", "ConvLSTM", "CustomModel">>

Names == {NameUniverse[i] : i \in 1..MaxNames}
Classes == {ClassUniverse[i] : i \in 1..MaxClasses}

\* `not model`: None is falsy, a class object is truthy.
Falsy(v) == v = None

\* A registration that keeps an existing entry (dict.setdefault).
register_model_keep_first(reg, name, model_class) ==
    IF name \in DOMAIN reg THEN reg ELSE DictSet(reg, name, model_class)

\* Config.register_model: self.__model_register[name] = model_class
register_model(reg, name, model_class) == DictSet(reg, name, model_class)

\* A lookup that hands None back instead of raising.
get_model_no_raise(reg, name) ==
    [kind |-> "return", value |-> DictGet(reg, name), reg |-> reg]

\* Config.get_model: the outcome of the call and the registry it leaves.
get_model(reg, name) ==
    LET model == DictGet(reg, name)
    IN  IF Falsy(model)
        THEN [kind |-> "raise", value |-> "RuntimeError", reg |-> reg]
        ELSE [kind |-> "return", value |-> model, reg |-> reg]

\* Config.__init__
RegInit ==
    /\ model_register = EmptyDict
    /\ registered_names = {}
    /\ last_registered = EmptyDict
    /\ ret = [op |-> "init", name |-> None, kind |-> "return", value |-> None]

RegisterModel ==
    /\ \E name \in Names, model_class \in Classes :
        /\ model_register' = register_model(model_register, name, model_class)
        /\ registered_names' = registered_names \cup {name}
        /\ last_registered' = DictSet(last_registered, name, model_class)
        /\ ret' = [op |-> "register_model", name |-> name,
                   kind |-> "return", value |-> None]
    /\ UNCHANGED notReg

GetModel ==
    /\ \E name \in Names :
        LET out == get_model(model_register, name)
        IN  /\ model_register' = out.reg
            /\ ret' = [op |-> "get_model", name |-> name,
                       kind |-> out.kind, value |-> out.value]
    /\ UNCHANGED <<registered_names, last_registered>>
    /\ UNCHANGED notReg

(***************************************************************************)
(* Configuration documents                                                 *)
(*                                                                         *)
(* A Python value is written as a string: a str as its text, any other     *)
(* value with its type in front ("int:32", "list:[float32]"), a dtype      *)
(* object by its qualified name ("np.float32", "torch.float32").  A        *)
(* document is a dict of root keys; "model", "dataset" and "trainer" hold  *)
(* dicts (sections), every other root key holds a scalar or a list.        *)
(***************************************************************************)
MaxSaves == 2

SectionKeys == {"model", "dataset", "trainer"}

\* Config._precisions: name -> <<numeric dtype, tensor dtype>>.  Python
\* indexes the pair from 0; a TLA+ tuple from 1.
precisions ==
    [n \in {"float16", "float32", "float64", "int8"} |->
        CASE n = "float16" -> <<"np.float16", "torch.float16">>
          [] n = "float32" -> <<"np.float32", "torch.float32">>
          [] n = "float64" -> <<"np.float64", "torch.float64">>
          [] n = "int8"    -> <<"np.uint8", "torch.uint8">>]

\* Values with no __hash__: dict.get(key) raises TypeError on them.
Unhashable == {"list:[float32]"}

\* What yaml.safe_dump writes for a value safe_load can give back, and
\* (read right to left) what safe_load makes of that text.
YamlTable ==
    << <<"float16", "float16">>, <<"float32", "float32">>,
       <<"float64", "float64">>, <<"int8", "int8">>,
       <<"float128", "float128">>, <<"user", "user">>,
       <<"data.csv", "data.csv">>,
       <<"32", "'32'">>, <<"int:32", "32">>, <<"int:1", "1">>,
       <<"None", "null">>, <<"list:[float32]", "[float32]">> >>

YamlIndices == 1..Len(YamlTable)

\* SafeRepresenter has a representer for the value.
Representable(v) == \E i \in YamlIndices : YamlTable[i][1] = v

represent_data(v) == YamlTable[CHOOSE i \in YamlIndices : YamlTable[i][1] = v][2]

construct_object(t) == YamlTable[CHOOSE i \in YamlIndices : YamlTable[i][2] = t][1]

\* safe_dump sorts the keys of every mapping (sort_keys=True).
KeyOrder == <<"dataset", "epochs", "lr", "model", "path", "precision", "trainer">>

SortedKeys(S) == SelectSeq(KeyOrder, LAMBDA k : k \in S)

\* The lines safe_dump writes for one root key.
DumpEntry(doc, k) ==
    IF k \in SectionKeys
    THEN IF DOMAIN doc[k] = {}
         THEN << [path |-> <<k>>, node |-> "{}"] >>
         ELSE LET sks == SortedKeys(DOMAIN doc[k])
              IN  [i \in 1..Len(sks) |->
                      [path |-> <<k, sks[i]>>, node |-> represent_data(doc[k][sks[i]])]]
    ELSE << [path |-> <<k>>, node |-> represent_data(doc[k])] >>

RECURSIVE DumpKeys(_, _)
DumpKeys(doc, ks) ==
    IF ks = <<>> THEN <<>>
    ELSE DumpEntry(doc, Head(ks)) \o DumpKeys(doc, Tail(ks))

\* Every scalar of the document, sections included.
Leaves(doc) ==
    UNION {IF k \in SectionKeys THEN {doc[k][sk] : sk \in DOMAIN doc[k]} ELSE {doc[k]}
           : k \in DOMAIN doc}

\* yaml.safe_dump(args, stream) on a stream just opened with "w": the whole
\* document is represented before anything is emitted, so a value without a
\* representer raises RepresenterError and leaves the file truncated.
safe_dump(doc) ==
    IF \A v \in Leaves(doc) : Representable(v)
    THEN [kind |-> "return", err |-> None, text |-> DumpKeys(doc, SortedKeys(DOMAIN doc))]
    ELSE [kind |-> "raise", err |-> "RepresenterError", text |-> <<>>]

\* yaml.safe_load(stream) of a non-empty text.
safe_load(text) ==
    LET lines == {text[i] : i \in 1..Len(text)}
        roots == {l.path[1] : l \in lines}
        sub(k) == {l \in lines : l.path[1] = k /\ Len(l.path) = 2}
        top(k) == CHOOSE l \in lines : l.path = <<k>>
    IN  [k \in roots |->
            IF k \in SectionKeys
            THEN [sk \in {l.path[2] : l \in sub(k)} |->
                     construct_object((CHOOSE l \in sub(k) : l.path[2] = sk).node)]
            ELSE construct_object(top(k).node)]

\* Resolution with the pair read the wrong way round.
set_precision_swapped(d) ==
    IF "precision" \notin DOMAIN d THEN [kind |-> "return", err |-> None, doc |-> d]
    ELSE IF d["precision"] \in Unhashable
         THEN [kind |-> "raise", err |-> "TypeError", doc |-> d]
    ELSE IF d["precision"] \notin DOMAIN precisions
         THEN [kind |-> "return", err |-> None, doc |-> d]
    ELSE LET p == precisions[d["precision"]]
             d1 == [d EXCEPT !["model"] = DictSet(d["model"], "precision", p[1])]
             d2 == [d1 EXCEPT !["dataset"] = DictSet(d1["dataset"], "precision", p[2])]
         IN  [kind |-> "return", err |-> None, doc |-> d2]

\* Config._set_precision, on a document (a dict).
set_precision(d) ==
    IF "precision" \notin DOMAIN d THEN [kind |-> "return", err |-> None, doc |-> d]
    ELSE IF d["precision"] \in Unhashable
         THEN [kind |-> "raise", err |-> "TypeError", doc |-> d]
    ELSE IF d["precision"] \notin DOMAIN precisions
         THEN [kind |-> "return", err |-> None, doc |-> d]
    ELSE LET p == precisions[d["precision"]]
             d1 == [d EXCEPT !["model"] = DictSet(d["model"], "precision", p[2])]
             d2 == [d1 EXCEPT !["dataset"] = DictSet(d1["dataset"], "precision", p[1])]
         IN  [kind |-> "return", err |-> None, doc |-> d2]

\* Config.get_args on the text of the file.  An empty file loads as None,
\* and None has no keys().
get_args(text) ==
    IF text = <<>>
    THEN [kind |-> "raise", err |-> "AttributeError", doc |-> EmptyDict]
    ELSE set_precision(safe_load(text))

\* Config.store_args
store_args(a) == safe_dump(a)

\* The configuration documents a user may write.
PrecisionValues ==
    {"float16", "float32", "float64", "int8", "float128", "int:32", "None",
     "list:[float32]"}

SectionsOver(K, V) == UNION {[S -> V] : S \in SUBSET K}

ModelSections == SectionsOver({"lr"}, {"int:1", "32"}) \cup
                 {DictSet(s, "precision", "user") : s \in SectionsOver({"lr"}, {"int:1"})}

DatasetSections == SectionsOver({"path"}, {"data.csv"}) \cup
                   {DictSet(s, "precision", "user") : s \in SectionsOver({"path"}, {"data.csv"})}

BaseDocuments ==
    {[k \in {"model", "dataset"} |-> IF k = "model" THEN m ELSE ds]
        : m \in ModelSections, ds \in DatasetSections}

Documents ==
    LET withTrainer == BaseDocuments \cup
            {DictSet(d, "trainer", [k \in {"epochs"} |-> "int:1"]) : d \in BaseDocuments}
    IN  withTrainer \cup
            {DictSet(d, "precision", p) : d \in withTrainer, p \in PrecisionValues}

CfgIdle ==
    /\ file = <<>>
    /\ args = EmptyDict
    /\ args_set = FALSE
    /\ orig = EmptyDict
    /\ saves = 0
    /\ cfg_ret = [op |-> "init", kind |-> "return", err |-> None]

\* A file holding one of the documents, and a fresh Config.
CfgInit ==
    \E doc \in Documents :
        /\ file = safe_dump(doc).text
        /\ args = EmptyDict
        /\ args_set = FALSE
        /\ orig = doc
        /\ saves = 0
        /\ cfg_ret = [op |-> "init", kind |-> "return", err |-> None]

GetArgs ==
    /\ LET out == get_args(file)
       IN  /\ cfg_ret' = [op |-> "get_args", kind |-> out.kind, err |-> out.err]
           /\ IF out.kind = "return"
              THEN args' = out.doc /\ args_set' = TRUE
              ELSE UNCHANGED <<args, args_set>>
    /\ UNCHANGED <<file, orig, saves>>
    /\ UNCHANGED notCfg

StoreArgs ==
    /\ args_set
    /\ saves < MaxSaves
    /\ LET out == store_args(args)
       IN  /\ file' = out.text
           /\ cfg_ret' = [op |-> "store_args", kind |-> out.kind, err |-> out.err]
           /\ saves' = IF out.kind = "return" THEN saves + 1 ELSE saves
    /\ UNCHANGED <<args, args_set, orig>>
    /\ UNCHANGED notCfg

(***************************************************************************)
(* Trainability of the parameters (AE.freeze, ConvVAE.freeze)              *)
(*                                                                         *)
(* A parameter is <<sub-network, tensor>>.  AE holds two nn.Sequential     *)
(* sub-networks whose layers 0 and 2 are the convolutions; ConvVAE holds   *)
(* the convolutions of ConvAE and its own two nn.Linear projections.       *)
(***************************************************************************)
AE_Params ==
    {"_encoder", "_decoder"} \X {"0.weight", "0.bias", "2.weight", "2.bias"}

ConvAE_Params ==
    {"_encoder_1", "_encoder_2", "_decoder_1", "_decoder_2"} \X {"weight", "bias"}

ConvVAE_Params ==
    ConvAE_Params \cup ({"_mean_layer", "_var_layer"} \X {"weight", "bias"})

ParamsOf(cls) == IF cls = "AE" THEN AE_Params ELSE ConvVAE_Params

\* AE.freeze: param.requires_grad = not unfreeze, over the encoder's and the
\* decoder's parameters.
AE_freeze(rg, unfreeze) ==
    [p \in DOMAIN rg |->
        IF p[1] \in {"_encoder", "_decoder"} THEN ~unfreeze ELSE rg[p]]

\* ConvAE.freeze (super().freeze of ConvVAE): the encoder's and the decoder's
\* parameters accumulate gradients exactly when unfreeze is set.
ConvAE_freeze(rg, unfreeze) ==
    [p \in DOMAIN rg |-> IF p \in ConvAE_Params THEN unfreeze ELSE rg[p]]

\* ConvVAE.freeze: super().freeze(unfreeze), then param.requires_grad =
\* not unfreeze over the two projection layers.
ConvVAE_freeze(rg, unfreeze) ==
    LET r1 == ConvAE_freeze(rg, unfreeze)
    IN  [p \in DOMAIN r1 |->
            IF p[1] \in {"_mean_layer", "_var_layer"} THEN ~unfreeze ELSE r1[p]]

FrzIdle ==
    /\ instance = "AE"
    /\ requires_grad = [p \in AE_Params |-> TRUE]
    /\ frz_ret = [op |-> "init", unfreeze |-> FALSE]

\* A model instance in any trainability state its owner may have left it in.
FrzInit ==
    \E cls \in {"AE", "ConvVAE"} :
        /\ instance = cls
        /\ requires_grad \in [ParamsOf(cls) -> BOOLEAN]
        /\ frz_ret = [op |-> "init", unfreeze |-> FALSE]

AEFreeze ==
    /\ instance = "AE"
    /\ \E unfreeze \in BOOLEAN :
        /\ requires_grad' = AE_freeze(requires_grad, unfreeze)
        /\ frz_ret' = [op |-> "freeze", unfreeze |-> unfreeze]
    /\ UNCHANGED instance
    /\ UNCHANGED notFrz

ConvVAEFreeze ==
    /\ instance = "ConvVAE"
    /\ \E unfreeze \in BOOLEAN :
        /\ requires_grad' = ConvVAE_freeze(requires_grad, unfreeze)
        /\ frz_ret' = [op |-> "freeze", unfreeze |-> unfreeze]
    /\ UNCHANGED instance
    /\ UNCHANGED notFrz

(***************************************************************************)
(* Convolutional auto-encoder: construction and tensor shapes              *)
(*                                                                         *)
(* A tensor is known by its shape <<batch, channels, length>>; <<>> stands *)
(* for no tensor.  Python's true division gives a float, held here as the  *)
(* exact fraction num/den with den > 0.                                    *)
(***************************************************************************)
MaxChannels == 2
MaxSeqLen == 10
MaxKernel == 5
MaxStride == 2
MaxPadding == 1
MaxBatch == 2

Rat(n) == [num |-> n, den |-> 1]
RatAddInt(r, i) == [num |-> r.num + i * r.den, den |-> r.den]
RatDivInt(r, s) == [num |-> r.num, den |-> r.den * s]
RatGT(a, b) == a.num * b.den > b.num * a.den
RatEq(a, b) == a.num * b.den = b.num * a.den

\* The check with the quotient floored, as nn.Conv1d computes its length.
check_length_floor(l, kernel_size, stride, padding) ==
    LET n == l.num - kernel_size * l.den + 2 * padding * l.den
    IN  Rat((n \div (l.den * stride)) + 1)

\* AE.__init__: ((l - kernel_size + 2 * padding) / stride) + 1
check_length(l, kernel_size, stride, padding) ==
    RatAddInt(RatDivInt(RatAddInt(l, 2 * padding - kernel_size), stride), 1)

\* nn.Conv1d(c_in, c_out, kernel_size, stride, padding) applied to shape x.
Conv1d(x, c_in, c_out, kernel_size, stride, padding) ==
    IF x[2] # c_in \/ x[3] + 2 * padding < kernel_size
    THEN [kind |-> "raise", shape |-> <<>>]
    ELSE [kind |-> "return",
          shape |-> <<x[1], c_out, ((x[3] + 2 * padding - kernel_size) \div stride) + 1>>]

\* nn.ConvTranspose1d(c_in, c_out, kernel_size, stride, padding) applied to x.
ConvTranspose1d(x, c_in, c_out, kernel_size, stride, padding) ==
    LET l == (x[3] - 1) * stride - 2 * padding + kernel_size
    IN  IF x[2] # c_in \/ l <= 0
        THEN [kind |-> "raise", shape |-> <<>>]
        ELSE [kind |-> "return", shape |-> <<x[1], c_out, l>>]

\* self._encoder: Conv1d, ReLU, Conv1d, ReLU (ReLU keeps the shape).
AE_encoder(m, x) ==
    LET h == Conv1d(x, m.features, m.extracted_features,
                    m.kernel_size, m.stride, m.padding)
    IN  IF h.kind = "raise" THEN h
        ELSE Conv1d(h.shape, m.extracted_features, m.latent_space,
                    m.kernel_size, m.stride, m.padding)

\* self._decoder: ConvTranspose1d, ReLU, ConvTranspose1d, last activation.
AE_decoder(m, x) ==
    LET h == ConvTranspose1d(x, m.latent_space, m.extracted_features,
                             m.kernel_size, m.stride, m.padding)
    IN  IF h.kind = "raise" THEN h
        ELSE ConvTranspose1d(h.shape, m.extracted_features, m.features,
                             m.kernel_size, m.stride, m.padding)

NoModel ==
    [features |-> 1, sequence_length |-> 1, extracted_features |-> 1,
     latent_space |-> 1, kernel_size |-> 1, stride |-> 1, padding |-> 1]

AeIdle ==
    /\ constructed = FALSE
    /\ ae = NoModel
    /\ ef_length = Rat(0)
    /\ ls_length = Rat(0)
    /\ warned = FALSE
    /\ x_shape = <<>>
    /\ z_shape = <<>>
    /\ y_shape = <<>>
    /\ ae_ret = [op |-> "none", kind |-> "return"]

\* AE.__init__
AEInit ==
    /\ ~constructed
    /\ \E f \in 1..MaxChannels, ef \in 1..MaxChannels, ls \in 1..MaxChannels,
          l \in 1..MaxSeqLen, k \in 1..MaxKernel, s \in 1..MaxStride,
          p \in 0..MaxPadding :
        LET efl == check_length(Rat(l), k, s, p)
            lsl == check_length(efl, k, s, p)
        IN  /\ ae' = [features |-> f, sequence_length |-> l,
                      extracted_features |-> ef, latent_space |-> ls,
                      kernel_size |-> k, stride |-> s, padding |-> p]
            /\ ef_length' = efl
            /\ ls_length' = lsl
            /\ warned' = RatGT(efl, lsl)
    /\ constructed' = TRUE
    /\ ae_ret' = [op |-> "__init__", kind |-> "return"]
    /\ UNCHANGED <<x_shape, z_shape, y_shape>>
    /\ UNCHANGED notAe

\* AE.encode on a batch of the configured shape.
AEEncode ==
    /\ constructed
    /\ \E b \in 1..MaxBatch :
        LET inp == <<b, ae.features, ae.sequence_length>>
            e == AE_encoder(ae, inp)
        IN  /\ x_shape' = inp
            /\ z_shape' = e.shape
            /\ y_shape' = <<>>
            /\ ae_ret' = [op |-> "encode", kind |-> e.kind]
    /\ UNCHANGED <<constructed, ae, ef_length, ls_length, warned>>
    /\ UNCHANGED notAe

\* AE.decode on the latent tensor encode returned.
AEDecode ==
    /\ constructed
    /\ z_shape # <<>>
    /\ LET d == AE_decoder(ae, z_shape)
       IN  /\ y_shape' = d.shape
           /\ ae_ret' = [op |-> "decode", kind |-> d.kind]
    /\ UNCHANGED <<constructed, ae, ef_length, ls_length, warned, x_shape, z_shape>>
    /\ UNCHANGED notAe

\* AE.forward: x = self._encoder(x); return self._decoder(x)
AEForward ==
    /\ constructed
    /\ \E b \in 1..MaxBatch :
        LET inp == <<b, ae.features, ae.sequence_length>>
            e == AE_encoder(ae, inp)
            d == IF e.kind = "raise" THEN e ELSE AE_decoder(ae, e.shape)
        IN  /\ x_shape' = inp
            /\ z_shape' = e.shape
            /\ y_shape' = d.shape
            /\ ae_ret' = [op |-> "forward", kind |-> d.kind]
    /\ UNCHANGED <<constructed, ae, ef_length, ls_length, warned>>
    /\ UNCHANGED notAe

(***************************************************************************)
(* Variational auto-encoder: the axis swaps of _encode                     *)
(*                                                                         *)
(* Here a tensor is the sequence of its axes, each <<meaning, size>>, so   *)
(* that a swap is seen to move a meaning and not only a size.              *)
(***************************************************************************)
MaxDim == 2

AxisNames == {"batch", "feature", "channel", "sample"}

\* torch.swapaxes(t, a, b), the axes counted from 0.
swapaxes(t, a, b) ==
    [i \in 1..Len(t) |->
        IF i = a + 1 THEN t[b + 1] ELSE IF i = b + 1 THEN t[a + 1] ELSE t[i]]

\* One swap only.
encode_layout_one_swap(t) == swapaxes(t, 1, 3)

\* ConvVAE._encode, its first two statements: the tensor handed to
\* self._encoder_1.
encode_layout(t) == swapaxes(swapaxes(t, 1, 3), 2, 1)

Meanings(t) == [i \in 1..Len(t) |-> t[i][1]]

\* Every 4-axis tensor that names each meaning once.
InputTensors ==
    {t \in [1..4 -> AxisNames \X (1..MaxDim)] :
        \A i, j \in 1..4 : t[i][1] = t[j][1] => i = j}

EncIdle ==
    /\ vx = <<>>
    /\ enc_in = <<>>
    /\ enc_ret = [op |-> "none"]

\* ConvVAE._encode up to the first convolution.  The convolutions are
\* ConvAE's; the claims here rest on the layout they are handed.
VAEEncode ==
    /\ \E t \in InputTensors :
        /\ vx' = t
        /\ enc_in' = encode_layout(t)
        /\ enc_ret' = [op |-> "_encode"]
    /\ UNCHANGED notEnc

(***************************************************************************)
(* Variational auto-encoder: reparameterization                            *)
(*                                                                         *)
(* A tensor is the sequence of its elements (flattened); the elements are  *)
(* small integers, on which + and * are exact as they are on the floats    *)
(* 0, +-1, +-2.                                                            *)
(***************************************************************************)
TensorLen == 2
MaxAbs == 1

Elements == (0 - MaxAbs)..MaxAbs
Tensors == [1..TensorLen -> Elements]

\* The sample with the scale left out: z = mean + epsilon.
reparameterization_unscaled(mean_t, var_t, epsilon) ==
    [i \in DOMAIN mean_t |-> mean_t[i] + epsilon[i]]

\* ConvVAE.reparameterization, given the noise torch.randn_like drew:
\* z = mean + var * epsilon.
reparameterization(mean_t, var_t, epsilon) ==
    [i \in DOMAIN mean_t |-> mean_t[i] + var_t[i] * epsilon[i]]

SmpIdle ==
    /\ mean = <<>>
    /\ var = <<>>
    /\ eps = <<>>
    /\ zs = <<>>
    /\ smp_ret = [op |-> "none"]

\* The mean and the scale reparameterization is called with.
SmpInit ==
    /\ mean \in Tensors
    /\ var \in Tensors
    /\ eps = <<>>
    /\ zs = <<>>
    /\ smp_ret = [op |-> "none"]

\* One call: torch.randn_like draws the noise, the sample is returned.
Reparameterization ==
    /\ smp_ret.op = "none"
    /\ \E epsilon \in Tensors :
        /\ eps' = epsilon
        /\ zs' = reparameterization(mean, var, epsilon)
        /\ smp_ret' = [op |-> "reparameterization"]
    /\ UNCHANGED <<mean, var>>
    /\ UNCHANGED notSmp

(***************************************************************************)
(* Specifications                                                          *)
(***************************************************************************)
InitRegistry == RegInit /\ CfgIdle /\ FrzIdle /\ AeIdle /\ EncIdle /\ SmpIdle

NextRegistry == RegisterModel \/ GetModel

SpecRegistry == InitRegistry /\ [][NextRegistry]_vars

InitConfig == RegInit /\ CfgInit /\ FrzIdle /\ AeIdle /\ EncIdle /\ SmpIdle

NextConfig == GetArgs \/ StoreArgs

SpecConfig == InitConfig /\ [][NextConfig]_vars

InitFreeze == RegInit /\ CfgIdle /\ FrzInit /\ AeIdle /\ EncIdle /\ SmpIdle

NextFreeze == AEFreeze \/ ConvVAEFreeze

SpecFreeze == InitFreeze /\ [][NextFreeze]_vars

InitAE == RegInit /\ CfgIdle /\ FrzIdle /\ AeIdle /\ EncIdle /\ SmpIdle

NextAE == AEInit \/ AEEncode \/ AEDecode \/ AEForward

SpecAE == InitAE /\ [][NextAE]_vars

InitVAEEncode == RegInit /\ CfgIdle /\ FrzIdle /\ AeIdle /\ EncIdle /\ SmpIdle

NextVAEEncode == VAEEncode

SpecVAEEncode == InitVAEEncode /\ [][NextVAEEncode]_vars

InitVAESample == RegInit /\ CfgIdle /\ FrzIdle /\ AeIdle /\ EncIdle /\ SmpInit

NextVAESample == Reparameterization

SpecVAESample == InitVAESample /\ [][NextVAESample]_vars

(***************************************************************************)
(* Claims                                                                  *)
(***************************************************************************)

\* C1: a lookup of a name that has been registered returns exactly the class
\* of the latest register_model call for that name, whatever calls on other
\* names came in between.
C1_LastRegistrationWins ==
    (ret.op = "get_model" /\ ret.name \in registered_names)
        => (ret.kind = "return" /\ ret.value = last_registered[ret.name])

\* A name registered twice with different classes, another name registered
\* too, and then looked up.
C1_Witness ==
    /\ ret.op = "get_model"
    /\ ret.kind = "return"
    /\ ret.name = "SimpleModel"
    /\ ret.value = "ConvVAE"
    /\ Cardinality(registered_names) >= 2

\* C2: a lookup of a name never passed to register_model raises RuntimeError
\* (the ModelNotRegistered condition) and leaves the registry as it was.
C2_UnregisteredRaises ==
    [][(ret'.op = "get_model" /\ ret'.name \notin registered_names')
        => (/\ ret'.kind = "raise"
            /\ ret'.value = "RuntimeError"
            /\ model_register' = model_register)]_vars

\* A failed lookup on a registry that holds other names.
C2_Witness ==
    /\ ret.op = "get_model"
    /\ ret.kind = "raise"
    /\ ret.name \notin registered_names
    /\ registered_names # {}

RegisteredPrecisions == {"float16", "float32", "float64", "int8"}
NumericDtypes == {"np.float16", "np.float32", "np.float64", "np.uint8"}
TensorDtypes == {"torch.float16", "torch.float32", "torch.float64", "torch.uint8"}

\* C3: when the root `precision` of the document is one of the four
\* registered names, get_args returns with dataset.precision the numeric
\* dtype and model.precision the tensor dtype of that name's pair, and every
\* other key of the document, the root `precision` included, as it was.
C3_PrecisionResolved ==
    (/\ cfg_ret.op = "get_args"
     /\ file # <<>>
     /\ "precision" \in DOMAIN orig
     /\ orig["precision"] \in RegisteredPrecisions)
        => (/\ cfg_ret.kind = "return"
            /\ args["dataset"]["precision"] = precisions[orig["precision"]][1]
            /\ args["dataset"]["precision"] \in NumericDtypes
            /\ args["model"]["precision"] = precisions[orig["precision"]][2]
            /\ args["model"]["precision"] \in TensorDtypes
            /\ DOMAIN args = DOMAIN orig
            /\ \A k \in DOMAIN orig :
                IF k \in {"model", "dataset"}
                THEN /\ DOMAIN args[k] = DOMAIN orig[k] \cup {"precision"}
                     /\ \A sk \in DOMAIN orig[k] \ {"precision"} :
                            args[k][sk] = orig[k][sk]
                ELSE args[k] = orig[k])

\* A document with other keys, and a model.precision of its own, resolved.
C3_Witness ==
    /\ cfg_ret.op = "get_args"
    /\ cfg_ret.kind = "return"
    /\ "precision" \in DOMAIN orig
    /\ orig["precision"] = "int8"
    /\ "trainer" \in DOMAIN orig
    /\ DOMAIN orig["model"] = {"lr", "precision"}
    /\ args["model"]["precision"] = "torch.uint8"
    /\ args["dataset"]["precision"] = "np.uint8"

\* C4: when the root `precision` is absent or is not one of the four
\* registered names, get_args raises nothing and returns the document with
\* every key and value as it was (no `precision` added to a section).
C4_NoOpOtherwise ==
    (/\ cfg_ret.op = "get_args"
     /\ ("precision" \notin DOMAIN orig
         \/ orig["precision"] \notin RegisteredPrecisions))
        => (cfg_ret.kind = "return" /\ args = orig)

\* Two documents agree on every key but model.precision and
\* dataset.precision.
EqualExceptDerived(d1, d2) ==
    /\ DOMAIN d1 = DOMAIN d2
    /\ \A k \in DOMAIN d1 :
        IF k \in {"model", "dataset"}
        THEN /\ DOMAIN d1[k] \ {"precision"} = DOMAIN d2[k] \ {"precision"}
             /\ \A sk \in DOMAIN d1[k] \ {"precision"} : d1[k][sk] = d2[k][sk]
        ELSE d1[k] = d2[k]

\* C5: every store_args of what get_args returned succeeds, the first and
\* the second time, and the document then in the file equals the original
\* on every key but model.precision and dataset.precision.
C5_RoundTrip ==
    (cfg_ret.op = "store_args")
        => (/\ cfg_ret.kind = "return"
            /\ EqualExceptDerived(safe_load(file), orig))

\* C6: after freeze(unfreeze=false) no parameter of the instance is
\* trainable, and after freeze(unfreeze=true) every one is (encoder, decoder
\* and, for the VAE, both projection layers).
C6_FreezeLocks ==
    (frz_ret.op = "freeze")
        => \A p \in DOMAIN requires_grad : requires_grad[p] = frz_ret.unfreeze

\* C7: whenever both encoder convolutions produce a positive length, encode
\* followed by decode (and forward) returns a tensor of the shape of the
\* input, <<batch, features, sequence_length>>.
C7_ShapeRestored ==
    (ae_ret.op \in {"decode", "forward"} /\ z_shape # <<>>)
        => (/\ ae_ret.kind = "return"
            /\ y_shape = x_shape
            /\ y_shape[2] = ae.features
            /\ y_shape[3] = ae.sequence_length)

Geometry(k, s, p, l) ==
    /\ ae.kernel_size = k
    /\ ae.stride = s
    /\ ae.padding = p
    /\ ae.sequence_length = l

C9_ZeroScaleReturnsMean ==
    (smp_ret.op = "reparameterization")
        => (/\ \A i \in 1..TensorLen : zs[i] = mean[i] + var[i] * eps[i]
            /\ (\A i \in 1..TensorLen : var[i] = 0) => zs = mean)

\* A zero scale, a non-zero mean and a noise with no zero element.
C9_Witness ==
    /\ smp_ret.op = "reparameterization"
    /\ \A i \in 1..TensorLen : var[i] = 0 /\ eps[i] # 0
    /\ \E i, j \in 1..TensorLen : mean[i] # 0 /\ mean[i] # mean[j]
    /\ zs = mean

\* C10 as stated: an input laid out (batch, feature, channel, sample) reaches
\* the first convolution laid out (batch, channel, feature, sample).
C10_FromFeatureChannelSample ==
    (enc_ret.op = "_encode"
     /\ Meanings(vx) = <<"batch", "feature", "channel", "sample">>)
        => Meanings(enc_in) = <<"batch", "channel", "feature", "sample">>

\* C10 as amended: an input laid out (batch, sample, channel, feature)
\* reaches the first convolution laid out (batch, channel, feature, sample),
\* every axis keeping its size: axis 0 stays batch, and the feature, channel
\* and sample axes land at positions 2, 1 and 3.
C10_FromSampleChannelFeature ==
    (enc_ret.op = "_encode"
     /\ Meanings(vx) = <<"batch", "sample", "channel", "feature">>)
        => (/\ Meanings(enc_in) = <<"batch", "channel", "feature", "sample">>
            /\ enc_in[1] = vx[1]
            /\ enc_in[2] = vx[3]
            /\ enc_in[3] = vx[4]
            /\ enc_in[4] = vx[2])

\* Such an input, its four axes of sizes not all equal.
C10_Witness ==
    /\ enc_ret.op = "_encode"
    /\ Meanings(vx) = <<"batch", "sample", "channel", "feature">>
    /\ vx[2][2] # vx[4][2]
    /\ enc_in[3] = vx[4]
====
